---- MODULE Spec2Model ----
(***************************************************************************)
(* Model of the scheme defanger of jakewilliami/defang-schemes and of the  *)
(* registry checks of tools/defangcheck.                                   *)
(*                                                                         *)
(* A string is a sequence of one-character strings.  Every character of    *)
(* the modelled alphabet is ASCII, so Go's len(scheme) (a byte count) and  *)
(* len([]rune(scheme)) are both Len of the sequence.  Positions in the     *)
(* source are 0-indexed; a source position p is element p + 1 here.        *)
(*                                                                         *)
(* DefangScheme is modelled statement by statement: pc is the case of the  *)
(* function that is evaluated next, every case either returns (pc =        *)
(* "done"), exits the process (pc = "exit") or falls through to the next.  *)
(* This is specification Spec.                                             *)
(*                                                                         *)
(* Specification CheckSpec is the tool chain: the generator builds the     *)
(* scheme map from a table of (name, status) rows, the defangcheck tool    *)
(* lists the map's Permanent records in some iteration order and runs its  *)
(* two checks over the list, one loop iteration per step.                  *)
(***************************************************************************)
EXTENDS Integers, Sequences, FiniteSets, TLC

\* Longest input the model draws.
MaxLen == 5

\* ADDITIONAL_ALLOWED_SCHEME_CHARS: the non-alphanumeric scheme characters.
ADDITIONAL_ALLOWED_SCHEME_CHARS == {"-", "+", "."}

\* The letters of the modelled alphabet: those of http and https, and the
\* marker itself.
Letters == {"h", "t", "p", "s", "x"}

Alphabet == Letters \cup ADDITIONAL_ALLOWED_SCHEME_CHARS

\* Every string over the alphabet of length 0 .. MaxLen.
Inputs == UNION {[1..n -> Alphabet] : n \in 0..MaxLen}

http == <<"h", "t", "t", "p">>
https == <<"h", "t", "t", "p", "s">>

VARIABLES
    scheme,     \* the argument of DefangScheme
    pc,         \* the case of DefangScheme evaluated next, "done" or "exit"
    result,     \* the returned string (meaningful when pc = "done")
    retCase,    \* the case whose return statement returned, "none" before
    exitCode,   \* the status passed to os.Exit, 0 while the process runs
    stdout,     \* the lines printed so far
    table,      \* the rows the generator reads: scheme name -> Status
    SchemeMap,  \* the generated map: scheme name -> Scheme struct
    permanentSchemes,       \* the list main hands to both checks
    idx,                    \* the element the running check's loop is at
    http_warned,            \* the running check's local flag
    seenDefangedSchemes,    \* the one-to-one check's local set
    scheme2,    \* the argument of a further call of DefangScheme
    result2,    \* what the further call returned
    calls,      \* the number of calls of DefangScheme a caller has made
    strs,                   \* the argument of constructPyList
    strsDone,               \* the number of elements its loop has consumed
    currentLineLength,      \* its counter of the current line's length
    currentLine,            \* its strings.Builder
    lines                   \* the lines it has completed

defangVars == <<scheme, result, retCase>>

checkVars == <<table, SchemeMap, permanentSchemes, idx, http_warned,
               seenDefangedSchemes>>

callVars == <<scheme2, result2, calls>>

pyVars == <<strs, strsDone, currentLineLength, currentLine, lines>>

vars == <<scheme, pc, result, retCase, exitCode, stdout, table, SchemeMap,
          permanentSchemes, idx, http_warned, seenDefangedSchemes,
          scheme2, result2, calls,
          strs, strsDone, currentLineLength, currentLine, lines>>

\* ---------------------------------------------------------------------
\* Helpers

\* Variant: the replacement is inserted before the rune instead of put in
\* its place.
RECURSIVE replaceAtPositions_Insert(_, _, _)
replaceAtPositions_Insert(s, positions, replacement) ==
    IF positions = <<>> THEN s
    ELSE LET pos == Head(positions)
             runes == IF pos >= 0 /\ pos < Len(s)
                      THEN SubSeq(s, 1, pos) \o <<replacement>>
                               \o SubSeq(s, pos + 1, Len(s))
                      ELSE s
         IN replaceAtPositions_Insert(runes, Tail(positions), replacement)

\* replaceAtPositions: for each source position pos of positions, in order,
\* set runes[pos] to replacement when 0 <= pos < len(runes).
RECURSIVE replaceAtPositions(_, _, _)
replaceAtPositions(s, positions, replacement) ==
    IF positions = <<>> THEN s
    ELSE LET pos == Head(positions)
             runes == IF pos >= 0 /\ pos < Len(s)
                      THEN [s EXCEPT ![pos + 1] = replacement]
                      ELSE s
         IN replaceAtPositions(runes, Tail(positions), replacement)

defangAtPositions(s, positions) == replaceAtPositions(s, positions, "x")

\* ADDITIONAL_ALLOWED_SCHEME_CHARS_PATTERN.MatchString: the pattern [-\+\.]+
\* matches somewhere iff some character is one of the additional characters.
MatchString(s) == \E i \in 1..Len(s) : s[i] \in ADDITIONAL_ALLOWED_SCHEME_CHARS

\* Variant: the match ends after its first character (a pattern without +).
MatchEnd_OneChar(s, i) == i + 1

\* End (exclusive) of the greedy match of [-\+\.]+ that starts at i.
RECURSIVE MatchEnd(_, _)
MatchEnd(s, i) ==
    IF i <= Len(s) /\ s[i] \in ADDITIONAL_ALLOWED_SCHEME_CHARS
    THEN MatchEnd(s, i + 1)
    ELSE i

\* Variant: the closing bracket is missing from the format string.
WrapMatch_OpenOnly(match) == <<"[">> \o match

\* Variant: the match is put back without brackets.
WrapMatch_NoBrackets(match) == match

\* The replacement function handed to ReplaceAllStringFunc:
\* fmt.Sprintf("[%s]", match).
WrapMatch(match) == <<"[">> \o match \o <<"]">>

\* ReplaceAllStringFunc from position i on: the leftmost match is taken
\* greedily, replaced by WrapMatch of it, and the scan resumes after it;
\* unmatched characters are copied.
RECURSIVE ReplaceAllFrom(_, _)
ReplaceAllFrom(s, i) ==
    IF i > Len(s) THEN <<>>
    ELSE IF s[i] \in ADDITIONAL_ALLOWED_SCHEME_CHARS
         THEN LET j == MatchEnd(s, i)
              IN WrapMatch(SubSeq(s, i, j - 1)) \o ReplaceAllFrom(s, j)
         ELSE <<s[i]>> \o ReplaceAllFrom(s, i + 1)

ReplaceAllStringFunc(s) == ReplaceAllFrom(s, 1)

\* The line DefangScheme prints before it exits.
ErrorLine(s) == <<"[ERROR] Unhandled scheme of length 1 in defang algorithm", s>>

\* ---------------------------------------------------------------------
\* DefangScheme, one action per case

Return(value, case) ==
    /\ result' = value
    /\ retCase' = case
    /\ pc' = "done"
    /\ UNCHANGED <<scheme, exitCode, stdout>>
    /\ UNCHANGED <<checkVars, callVars, pyVars>>

FallThrough(next) ==
    /\ pc' = next
    /\ UNCHANGED <<scheme, result, retCase, exitCode, stdout>>
    /\ UNCHANGED <<checkVars, callVars, pyVars>>

\* Variant: the length check is missing.
Case0_NoLengthCheck ==
    /\ pc = "case0"
    /\ FallThrough("case1")

\* Variant: the check rejects every scheme of length <= 2.
Case0_RejectsShort ==
    /\ pc = "case0"
    /\ IF Len(scheme) <= 2
       THEN /\ stdout' = Append(stdout, ErrorLine(scheme))
            /\ exitCode' = 1
            /\ pc' = "exit"
            /\ UNCHANGED <<scheme, result, retCase>>
            /\ UNCHANGED <<checkVars, callVars, pyVars>>
       ELSE FallThrough("case1")

\* Case 0: a scheme of length 1 prints an error and exits with status 1.
Case0 ==
    /\ pc = "case0"
    /\ IF Len(scheme) = 1
       THEN /\ stdout' = Append(stdout, ErrorLine(scheme))
            /\ exitCode' = 1
            /\ pc' = "exit"
            /\ UNCHANGED <<scheme, result, retCase>>
            /\ UNCHANGED <<checkVars, callVars, pyVars>>
       ELSE FallThrough("case1")

\* Variant: no special case for http and https.
Case1_NoSpecialCase ==
    /\ pc = "case1"
    /\ FallThrough("case2")

\* Case 1: http and https.
Case1 ==
    /\ pc = "case1"
    /\ IF scheme = http \/ scheme = https
       THEN Return(defangAtPositions(scheme, <<1, 2>>), "case1")
       ELSE FallThrough("case2")

\* Variant: the length rules win over the bracket rule.
Case2_LengthFirst ==
    /\ pc = "case2"
    /\ IF MatchString(scheme) /\ Len(scheme) > 4
       THEN Return(ReplaceAllStringFunc(scheme), "case2")
       ELSE FallThrough("case3")

\* Case 2: bracket the runs of additional characters.
Case2 ==
    /\ pc = "case2"
    /\ IF MatchString(scheme)
       THEN Return(ReplaceAllStringFunc(scheme), "case2")
       ELSE FallThrough("case3")

\* Case 3: 3-letter schemes.
Case3 ==
    /\ pc = "case3"
    /\ IF Len(scheme) = 3
       THEN Return(defangAtPositions(scheme, <<1>>), "case3")
       ELSE FallThrough("case4")

\* Variant: the first character is replaced.
Case4_Position0 ==
    /\ pc = "case4"
    /\ IF Len(scheme) = 2
       THEN Return(defangAtPositions(scheme, <<0>>), "case4")
       ELSE FallThrough("case5")

\* Case 4: 2-letter schemes.
Case4 ==
    /\ pc = "case4"
    /\ IF Len(scheme) = 2
       THEN Return(defangAtPositions(scheme, <<1>>), "case4")
       ELSE FallThrough("case5")

\* Variant: the second character is replaced.
Case5_Position1 ==
    /\ pc = "case5"
    /\ IF Len(scheme) = 4
       THEN Return(defangAtPositions(scheme, <<1>>), "case5")
       ELSE FallThrough("default")

\* Case 5: 4-letter schemes.
Case5 ==
    /\ pc = "case5"
    /\ IF Len(scheme) = 4
       THEN Return(defangAtPositions(scheme, <<2>>), "case5")
       ELSE FallThrough("default")

\* Variant: only one character is replaced.
Default_OnePosition ==
    /\ pc = "default"
    /\ Return(defangAtPositions(scheme, <<1>>), "default")

\* Default case.
Default ==
    /\ pc = "default"
    /\ Return(defangAtPositions(scheme, <<1, 2>>), "default")

\* The variables of a caller that calls DefangScheme again, before any call.
CallIdle ==
    /\ scheme2 = <<>>
    /\ result2 = <<>>
    /\ calls = 0

\* The variables of constructPyList while it does not run.
PyIdle ==
    /\ strs = <<>>
    /\ strsDone = 0
    /\ currentLineLength = 0
    /\ currentLine = <<>>
    /\ lines = <<>>

\* The tool chain's variables while no tool runs.
CheckIdle ==
    /\ table = <<>>
    /\ SchemeMap = <<>>
    /\ permanentSchemes = <<>>
    /\ idx = 0
    /\ http_warned = FALSE
    /\ seenDefangedSchemes = {}

Init ==
    /\ scheme \in Inputs
    /\ pc = "case0"
    /\ result = <<>>
    /\ retCase = "none"
    /\ exitCode = 0
    /\ stdout = <<>>
    /\ CheckIdle
    /\ CallIdle
    /\ PyIdle

Next ==
    \/ Case0
    \/ Case1
    \/ Case2
    \/ Case3
    \/ Case4
    \/ Case5
    \/ Default

Spec == Init /\ [][Next]_vars

\* ---------------------------------------------------------------------
\* Vocabulary of the properties

Terminated == pc \in {"done", "exit"}

\* s with every character whose source position is in P set to the marker.
MarkedAt(s, P) == [i \in 1..Len(s) |-> IF (i - 1) \in P THEN "x" ELSE s[i]]

\* s without its bracket characters.
StripBrackets(s) == SelectSeq(s, LAMBDA c : c \notin {"[", "]"})

\* r is s with every maximal run of additional characters enclosed in one
\* bracket pair and nothing else changed: removing the brackets gives s, a
\* bracket always touches an additional character on its inner side, an
\* additional character always sits between a bracket or another additional
\* character on each side, and no pair closes right where the next opens.
IsBracketWrapOf(r, s) ==
    /\ StripBrackets(r) = s
    /\ \A i \in 1..Len(r) :
        /\ r[i] = "[" =>
              i < Len(r) /\ r[i + 1] \in ADDITIONAL_ALLOWED_SCHEME_CHARS
        /\ r[i] = "]" =>
              /\ i > 1 /\ r[i - 1] \in ADDITIONAL_ALLOWED_SCHEME_CHARS
              /\ i < Len(r) => r[i + 1] # "["
        /\ r[i] \in ADDITIONAL_ALLOWED_SCHEME_CHARS =>
              /\ i > 1 /\ r[i - 1] \in ADDITIONAL_ALLOWED_SCHEME_CHARS \cup {"["}
              /\ i < Len(r) /\ r[i + 1] \in ADDITIONAL_ALLOWED_SCHEME_CHARS \cup {"]"}

HasReserved(s) == {i \in 1..Len(s) : s[i] \in {"-", "+", "."}} # {}

\* ---------------------------------------------------------------------
\* Properties

\* C1: every scheme of length >= 2 is returned changed: the result of
\* DefangScheme differs from its argument.
C1_OutputDiffers ==
    (pc = "done" /\ Len(scheme) >= 2) => result # scheme

\* C2: DefangScheme("http") is "hxxp" and DefangScheme("https") is "hxxps":
\* positions 1 and 2 become the marker, every other character is kept.
C2_HttpHttps ==
    pc = "done" =>
        /\ scheme = http => result = <<"h", "x", "x", "p">>
        /\ scheme = https => result = <<"h", "x", "x", "p", "s">>

C2_Witness ==
    /\ pc = "done"
    /\ scheme = http
    /\ result = <<"h", "x", "x", "p">>

\* C3: a scheme of length >= 2 that contains an additional character is
\* returned with each maximal run of them in one bracket pair and with no
\* other change (no marker is put in, removing the brackets gives the input).
C3_BracketWrap ==
    (pc = "done" /\ Len(scheme) >= 2 /\ HasReserved(scheme)
        /\ scheme \notin {http, https}) =>
        /\ IsBracketWrapOf(result, scheme)
        /\ Len(SelectSeq(result, LAMBDA c : c = "x"))
              = Len(SelectSeq(scheme, LAMBDA c : c = "x"))

C3_Witness ==
    /\ pc = "done"
    /\ scheme = <<"s", "-", "+", "t", ".">>
    /\ result = <<"s", "[", "-", "+", "]", "t", "[", ".", "]">>

\* C4: a string of length 1, whatever its character, makes DefangScheme
\* print an error and exit with status 1 in its first case; no later case
\* is evaluated and nothing is returned.
C4_LengthOneExits ==
    Len(scheme) = 1 =>
        /\ pc \in {"case0", "exit"}
        /\ result = <<>> /\ retCase = "none"
        /\ pc = "exit" => exitCode = 1 /\ stdout = <<ErrorLine(scheme)>>

C4_Witness ==
    /\ pc = "exit"
    /\ scheme = <<"-">>
    /\ exitCode = 1

\* C5: every string shorter than 2 characters, the empty one included, ends
\* DefangScheme with the error exit and not with a returned value.
C5_ShortInputExits ==
    (Terminated /\ Len(scheme) < 2) => pc = "exit"

\* C6: no input of length >= 2 is rejected: DefangScheme never exits or
\* prints on it and always goes on to a return, and a string longer than 4
\* without additional characters other than https returns from the default
\* case.
C6_NoOtherRejection ==
    Len(scheme) >= 2 =>
        /\ pc # "exit" /\ exitCode = 0 /\ stdout = <<>>
        /\ pc # "done" => ENABLED Next
        /\ (pc = "done" /\ Len(scheme) > 4 /\ ~HasReserved(scheme)
               /\ scheme # https) => retCase = "default"

C6_Witness ==
    /\ pc = "done"
    /\ retCase = "default"
    /\ scheme = <<"s", "h", "t", "t", "p">>
    /\ exitCode = 0

\* C7: a 4-character scheme without additional characters other than http
\* gets the marker at position 2 and keeps positions 0, 1 and 3; the
\* character at position 1 is therefore readable from the result, so two
\* such schemes that differ only there have different results.
C7_LengthFour ==
    (pc = "done" /\ Len(scheme) = 4 /\ ~HasReserved(scheme) /\ scheme # http) =>
        /\ Len(result) = 4
        /\ result[3] = "x"
        /\ result[1] = scheme[1] /\ result[2] = scheme[2] /\ result[4] = scheme[4]

C7_Witness ==
    /\ pc = "done"
    /\ scheme = <<"s", "h", "t", "p">>
    /\ result = <<"s", "h", "x", "p">>

\* C8: a scheme of length 2 or 3 without additional characters is returned
\* with the same length, the marker at position 1 and every other position
\* unchanged.
C8_LengthTwoThree ==
    (pc = "done" /\ Len(scheme) \in {2, 3} /\ ~HasReserved(scheme)) =>
        /\ Len(result) = Len(scheme)
        /\ result[2] = "x"
        /\ \A i \in 1..Len(scheme) : i # 2 => result[i] = scheme[i]

C8_Witness ==
    /\ pc = "done"
    /\ scheme = <<"t", "p">>
    /\ result = <<"t", "x">>

\* C9: a scheme longer than 4 characters without additional characters is
\* returned with the same length, the marker at positions 1 and 2 and
\* every other position unchanged.
C9_Longer ==
    (pc = "done" /\ Len(scheme) > 4 /\ ~HasReserved(scheme)) =>
        /\ Len(result) = Len(scheme)
        /\ result[2] = "x" /\ result[3] = "x"
        /\ \A i \in 1..Len(scheme) : i \notin {2, 3} => result[i] = scheme[i]

C9_Witness ==
    /\ pc = "done"
    /\ scheme = <<"s", "t", "t", "p", "h">>
    /\ result = <<"s", "x", "x", "p", "h">>

\* The rules in their fixed order: 1 length 1, 2 http/https, 3 contains an
\* additional character, 4 length 3, 5 length 2, 6 length 4, 7 default.
RuleMatches(k, s) ==
    CASE k = 1 -> Len(s) = 1
      [] k = 2 -> s \in {http, https}
      [] k = 3 -> HasReserved(s)
      [] k = 4 -> Len(s) = 3
      [] k = 5 -> Len(s) = 2
      [] k = 6 -> Len(s) = 4
      [] OTHER -> TRUE

FirstRule(s) ==
    CHOOSE k \in 1..7 : RuleMatches(k, s) /\ \A j \in 1..(k - 1) : ~RuleMatches(j, s)

RuleCase == <<"none", "case1", "case2", "case3", "case4", "case5", "default">>

\* r is what rule k makes of s.
RuleOutcome(k, s, r) ==
    CASE k = 2 -> r = MarkedAt(s, {1, 2})
      [] k = 3 -> IsBracketWrapOf(r, s)
      [] k = 4 -> r = MarkedAt(s, {1})
      [] k = 5 -> r = MarkedAt(s, {1})
      [] k = 6 -> r = MarkedAt(s, {2})
      [] OTHER -> r = MarkedAt(s, {1, 2})

\* C10: the outcome of DefangScheme is that of the first rule matching in
\* the fixed order, and of that rule alone: the error exit for rule 1,
\* otherwise a return from that rule's case with that rule's result, after
\* which no case is evaluated.  A scheme of length 2, 3 or 4 with an
\* additional character is bracketed, not marked.
C10_FirstMatchWins ==
    Terminated =>
        LET k == FirstRule(scheme)
        IN /\ ~ENABLED Next
           /\ retCase = RuleCase[k]
           /\ k = 1 => pc = "exit" /\ result = <<>>
           /\ k > 1 => pc = "done" /\ RuleOutcome(k, scheme, result)
           /\ (Len(scheme) \in {2, 3, 4} /\ HasReserved(scheme)) =>
                 retCase = "case2" /\ Len(result) > Len(scheme)

C10_Witness ==
    /\ pc = "done"
    /\ retCase = "case2"
    /\ scheme = <<"h", "-", "t">>
    /\ result = <<"h", "[", "-", "]", "t">>

\* ---------------------------------------------------------------------
\* The tool chain: generator and defangcheck

\* Most records a table holds.
MaxRecords == 4

Permanent == "Permanent"
Provisional == "Provisional"
Historical == "Historical"

Statuses == {Permanent, Provisional, Historical}

hxxp == <<"h", "x", "x", "p">>
hxxps == <<"h", "x", "x", "p", "s">>

\* The scheme names the tables are drawn from: the four names of the known
\* edge case, names that share a defanged form with one another or with
\* http, a name that is its own defanged form, a name with an additional
\* character and a name of length 1.
SchemeNames ==
    { http, https, hxxp, hxxps,
      <<"h", "x", "t", "p">>,
      <<"t", "p">>, <<"t", "s">>, <<"t", "t">>, <<"t", "x">>,
      <<"t", ".", "p">>,
      <<"p">> }

\* The tables: at most MaxRecords rows, names unique (registry keys), each
\* name non-empty as cleanScheme leaves it.
Tables ==
    UNION {[S -> Statuses] :
              S \in {S \in SUBSET SchemeNames : Cardinality(S) <= MaxRecords}}

\* Variant: a scheme of length 4 gets position 1 replaced.
DefangScheme_LengthFourPosition1(s) ==
    IF s = http \/ s = https THEN defangAtPositions(s, <<1, 2>>)
    ELSE IF MatchString(s) THEN ReplaceAllStringFunc(s)
    ELSE IF Len(s) = 3 THEN defangAtPositions(s, <<1>>)
    ELSE IF Len(s) = 2 THEN defangAtPositions(s, <<1>>)
    ELSE IF Len(s) = 4 THEN defangAtPositions(s, <<1>>)
    ELSE defangAtPositions(s, <<1, 2>>)

\* The value DefangScheme returns (it returns for every length but 1).
DefangScheme(s) ==
    IF s = http \/ s = https THEN defangAtPositions(s, <<1, 2>>)
    ELSE IF MatchString(s) THEN ReplaceAllStringFunc(s)
    ELSE IF Len(s) = 3 THEN defangAtPositions(s, <<1>>)
    ELSE IF Len(s) = 2 THEN defangAtPositions(s, <<1>>)
    ELSE IF Len(s) = 4 THEN defangAtPositions(s, <<2>>)
    ELSE defangAtPositions(s, <<1, 2>>)

\* The Scheme struct, with the fields the checks read.
SchemeStruct(name, defanged, status) ==
    [Scheme |-> name, DefangedScheme |-> defanged, Status |-> status]

\* Scheme.Validate: Scheme and DefangedScheme are required, Status is one of
\* the three.
Validate(s) ==
    /\ s.Scheme # <<>>
    /\ s.DefangedScheme # <<>>
    /\ s.Status \in Statuses

\* A printed line.
Line(level, msg, defanged, offenders) ==
    [level |-> level, msg |-> msg, defanged |-> defanged, offenders |-> offenders]

WarnPermanentOnly == Line("WARN", "only checking permanent schemes", <<>>, <<>>)
InfoNotValid == Line("INFO", "checking no valid schemes are produced", <<>>, <<>>)
InfoOneToOne == Line("INFO", "checking the algorithm is invertible", <<>>, <<>>)
WarnHttpValid == Line("WARN", "HTTP[S] defangs into a valid scheme", <<>>, <<>>)
WarnHttpDuplicated == Line("WARN", "HTTP[S] defangs into HXXP[S]", <<>>, <<>>)
ErrorStillValid(d) == Line("ERROR", "still a valid scheme", d, <<>>)
ErrorDuplicated(d, offenders) == Line("ERROR", "duplicated", d, offenders)

\* Every ordering of the set S as a sequence.
RECURSIVE Orderings(_)
Orderings(S) ==
    IF S = {} THEN {<<>>}
    ELSE UNION {{<<x>> \o o : o \in Orderings(S \ {x})} : x \in S}

\* Variant: the name is stored as its own defanged form.
WriteConstsMain_NotDefanged ==
    /\ pc = "writeconsts"
    /\ IF \E n \in DOMAIN table : Len(n) = 1
       THEN /\ \E n \in {m \in DOMAIN table : Len(m) = 1} :
                  stdout' = Append(stdout, ErrorLine(n))
            /\ exitCode' = 1
            /\ pc' = "generator_exited"
            /\ UNCHANGED SchemeMap
       ELSE LET schemeMap ==
                    [n \in DOMAIN table |->
                        SchemeStruct(n, n, table[n])]
            IN IF \A n \in DOMAIN schemeMap : Validate(schemeMap[n])
               THEN /\ SchemeMap' = schemeMap
                    /\ pc' = "checkmain"
                    /\ UNCHANGED <<exitCode, stdout>>
               ELSE /\ stdout' = Append(stdout, Line("ERROR", "invalid struct", <<>>, <<>>))
                    /\ exitCode' = 1
                    /\ pc' = "generator_exited"
                    /\ UNCHANGED SchemeMap
    /\ UNCHANGED <<table, permanentSchemes, idx, http_warned, seenDefangedSchemes>>
    /\ UNCHANGED <<defangVars, callVars, pyVars>>

\* The generator's main: every row gets its struct with DefangedScheme =
\* DefangScheme(Scheme), stored under its name, and is validated.  A name of
\* length 1 ends the generator inside DefangScheme.
WriteConstsMain ==
    /\ pc = "writeconsts"
    /\ IF \E n \in DOMAIN table : Len(n) = 1
       THEN /\ \E n \in {m \in DOMAIN table : Len(m) = 1} :
                  stdout' = Append(stdout, ErrorLine(n))
            /\ exitCode' = 1
            /\ pc' = "generator_exited"
            /\ UNCHANGED SchemeMap
       ELSE LET schemeMap ==
                    [n \in DOMAIN table |->
                        SchemeStruct(n, DefangScheme(n), table[n])]
            IN IF \A n \in DOMAIN schemeMap : Validate(schemeMap[n])
               THEN /\ SchemeMap' = schemeMap
                    /\ pc' = "checkmain"
                    /\ UNCHANGED <<exitCode, stdout>>
               ELSE /\ stdout' = Append(stdout, Line("ERROR", "invalid struct", <<>>, <<>>))
                    /\ exitCode' = 1
                    /\ pc' = "generator_exited"
                    /\ UNCHANGED SchemeMap
    /\ UNCHANGED <<table, permanentSchemes, idx, http_warned, seenDefangedSchemes>>
    /\ UNCHANGED <<defangVars, callVars, pyVars>>

\* Variant: every record of the map is kept, whatever its status.
DefangCheckMain_NoFilter ==
    /\ pc = "checkmain"
    /\ \E order \in Orderings(DOMAIN SchemeMap) :
          permanentSchemes' = [i \in 1..Len(order) |-> SchemeMap[order[i]]]
    /\ stdout' = Append(stdout, WarnPermanentOnly)
    /\ pc' = "notvalid_begin"
    /\ UNCHANGED <<table, SchemeMap, idx, http_warned, seenDefangedSchemes, exitCode>>
    /\ UNCHANGED <<defangVars, callVars, pyVars>>

\* defangcheck's main up to the first check: the map is listed in its
\* iteration order, which is any order, and the Permanent records are kept
\* in that order.
DefangCheckMain ==
    /\ pc = "checkmain"
    /\ \E order \in Orderings({n \in DOMAIN SchemeMap :
                                  SchemeMap[n].Status = Permanent}) :
          permanentSchemes' = [i \in 1..Len(order) |-> SchemeMap[order[i]]]
    /\ stdout' = Append(stdout, WarnPermanentOnly)
    /\ pc' = "notvalid_begin"
    /\ UNCHANGED <<table, SchemeMap, idx, http_warned, seenDefangedSchemes, exitCode>>
    /\ UNCHANGED <<defangVars, callVars, pyVars>>

\* Variant: a record is not compared with itself.
defangedSchemeIsKnown_OthersOnly(s, knownSchemes) ==
    \E k \in 1..Len(knownSchemes) :
        /\ knownSchemes[k].Scheme # s.Scheme
        /\ s.DefangedScheme = knownSchemes[k].Scheme

\* defangedSchemeIsKnown
defangedSchemeIsKnown(s, knownSchemes) ==
    \E k \in 1..Len(knownSchemes) : s.DefangedScheme = knownSchemes[k].Scheme

\* Variant: only http and https are excused.
IsHttpEdgeCase_HttpOnly(s) ==
    s.Scheme = http \/ s.Scheme = https

\* The test both checks make for the known edge case.
IsHttpEdgeCase(s) ==
    s.Scheme = http \/ s.Scheme = hxxp \/ s.Scheme = https \/ s.Scheme = hxxps

\* Variant: the error is printed and the loop goes on.
FatalExit_Continue(line) ==
    /\ stdout' = Append(stdout, line)
    /\ idx' = idx + 1
    /\ UNCHANGED <<pc, exitCode, http_warned, seenDefangedSchemes>>

\* os.Exit(1) after printing line.
FatalExit(line) ==
    /\ stdout' = Append(stdout, line)
    /\ exitCode' = 1
    /\ pc' = "exited"
    /\ UNCHANGED <<idx, http_warned, seenDefangedSchemes>>

\* defangedSchemesAreNotValid: entry.
NotValidBegin ==
    /\ pc = "notvalid_begin"
    /\ stdout' = Append(stdout, InfoNotValid)
    /\ http_warned' = FALSE
    /\ idx' = 1
    /\ pc' = "notvalid_loop"
    /\ UNCHANGED <<table, SchemeMap, permanentSchemes, seenDefangedSchemes, exitCode>>
    /\ UNCHANGED <<defangVars, callVars, pyVars>>

\* Variant: the flag is never set.
NotValidIter_FlagNotSet ==
    /\ pc = "notvalid_loop"
    /\ idx <= Len(permanentSchemes)
    /\ LET s == permanentSchemes[idx]
       IN IF defangedSchemeIsKnown(s, permanentSchemes)
          THEN IF IsHttpEdgeCase(s)
               THEN /\ IF ~http_warned
                       THEN /\ stdout' = Append(stdout, WarnHttpValid)
                            /\ UNCHANGED http_warned
                       ELSE UNCHANGED <<stdout, http_warned>>
                    /\ idx' = idx + 1
                    /\ UNCHANGED <<pc, exitCode, seenDefangedSchemes>>
               ELSE FatalExit(ErrorStillValid(s.DefangedScheme))
          ELSE /\ idx' = idx + 1
               /\ UNCHANGED <<pc, exitCode, stdout, http_warned, seenDefangedSchemes>>
    /\ UNCHANGED <<table, SchemeMap, permanentSchemes>>
    /\ UNCHANGED <<defangVars, callVars, pyVars>>

\* defangedSchemesAreNotValid: one iteration of the loop.
NotValidIter ==
    /\ pc = "notvalid_loop"
    /\ idx <= Len(permanentSchemes)
    /\ LET s == permanentSchemes[idx]
       IN IF defangedSchemeIsKnown(s, permanentSchemes)
          THEN IF IsHttpEdgeCase(s)
               THEN /\ IF ~http_warned
                       THEN /\ stdout' = Append(stdout, WarnHttpValid)
                            /\ http_warned' = TRUE
                       ELSE UNCHANGED <<stdout, http_warned>>
                    /\ idx' = idx + 1
                    /\ UNCHANGED <<pc, exitCode, seenDefangedSchemes>>
               ELSE FatalExit(ErrorStillValid(s.DefangedScheme))
          ELSE /\ idx' = idx + 1
               /\ UNCHANGED <<pc, exitCode, stdout, http_warned, seenDefangedSchemes>>
    /\ UNCHANGED <<table, SchemeMap, permanentSchemes>>
    /\ UNCHANGED <<defangVars, callVars, pyVars>>

\* defangedSchemesAreNotValid: the loop is over, the function returns.
NotValidReturn ==
    /\ pc = "notvalid_loop"
    /\ idx > Len(permanentSchemes)
    /\ pc' = "onetoone_begin"
    /\ UNCHANGED <<exitCode, stdout>>
    /\ UNCHANGED checkVars
    /\ UNCHANGED <<defangVars, callVars, pyVars>>

\* defangedSchemesAreOneToOne: entry.
OneToOneBegin ==
    /\ pc = "onetoone_begin"
    /\ stdout' = Append(stdout, InfoOneToOne)
    /\ http_warned' = FALSE
    /\ seenDefangedSchemes' = {}
    /\ idx' = 1
    /\ pc' = "onetoone_loop"
    /\ UNCHANGED <<table, SchemeMap, permanentSchemes, exitCode>>
    /\ UNCHANGED <<defangVars, callVars, pyVars>>

\* Variant: the record's name is compared instead of its defanged form.
RECURSIVE duplicateSchemes_ByName(_, _)
duplicateSchemes_ByName(schemes, d) ==
    IF schemes = <<>> THEN <<>>
    ELSE (IF Head(schemes).Scheme = d THEN <<Head(schemes).Scheme>> ELSE <<>>)
            \o duplicateSchemes_ByName(Tail(schemes), d)

\* The names of the records of schemes whose defanged form is d, in order.
RECURSIVE duplicateSchemes(_, _)
duplicateSchemes(schemes, d) ==
    IF schemes = <<>> THEN <<>>
    ELSE (IF Head(schemes).DefangedScheme = d THEN <<Head(schemes).Scheme>> ELSE <<>>)
            \o duplicateSchemes(Tail(schemes), d)

\* Variant: a record collides only with an earlier record of another name.
OneToOneIter_DifferentNameOnly ==
    /\ pc = "onetoone_loop"
    /\ idx <= Len(permanentSchemes)
    /\ LET s == permanentSchemes[idx]
       IN IF \E j \in 1..(idx - 1) :
                /\ permanentSchemes[j].DefangedScheme = s.DefangedScheme
                /\ permanentSchemes[j].Scheme # s.Scheme
          THEN IF IsHttpEdgeCase(s)
               THEN /\ IF ~http_warned
                       THEN /\ stdout' = Append(stdout, WarnHttpDuplicated)
                            /\ http_warned' = TRUE
                       ELSE UNCHANGED <<stdout, http_warned>>
                    /\ seenDefangedSchemes' = seenDefangedSchemes \cup {s.DefangedScheme}
                    /\ idx' = idx + 1
                    /\ UNCHANGED <<pc, exitCode>>
               ELSE FatalExit(ErrorDuplicated(s.DefangedScheme,
                        duplicateSchemes(permanentSchemes, s.DefangedScheme)))
          ELSE /\ seenDefangedSchemes' = seenDefangedSchemes \cup {s.DefangedScheme}
               /\ idx' = idx + 1
               /\ UNCHANGED <<pc, exitCode, stdout, http_warned>>
    /\ UNCHANGED <<table, SchemeMap, permanentSchemes>>
    /\ UNCHANGED <<defangVars, callVars, pyVars>>

\* Variant: the defanged form is never put in seenDefangedSchemes.
OneToOneIter_SeenNotRecorded ==
    /\ pc = "onetoone_loop"
    /\ idx <= Len(permanentSchemes)
    /\ LET s == permanentSchemes[idx]
       IN IF s.DefangedScheme \in seenDefangedSchemes
          THEN IF IsHttpEdgeCase(s)
               THEN /\ IF ~http_warned
                       THEN /\ stdout' = Append(stdout, WarnHttpDuplicated)
                            /\ http_warned' = TRUE
                       ELSE UNCHANGED <<stdout, http_warned>>
                    /\ UNCHANGED seenDefangedSchemes
                    /\ idx' = idx + 1
                    /\ UNCHANGED <<pc, exitCode>>
               ELSE FatalExit(ErrorDuplicated(s.DefangedScheme,
                        duplicateSchemes(permanentSchemes, s.DefangedScheme)))
          ELSE /\ UNCHANGED seenDefangedSchemes
               /\ idx' = idx + 1
               /\ UNCHANGED <<pc, exitCode, stdout, http_warned>>
    /\ UNCHANGED <<table, SchemeMap, permanentSchemes>>
    /\ UNCHANGED <<defangVars, callVars, pyVars>>

\* defangedSchemesAreOneToOne: one iteration of the loop.
OneToOneIter ==
    /\ pc = "onetoone_loop"
    /\ idx <= Len(permanentSchemes)
    /\ LET s == permanentSchemes[idx]
       IN IF s.DefangedScheme \in seenDefangedSchemes
          THEN IF IsHttpEdgeCase(s)
               THEN /\ IF ~http_warned
                       THEN /\ stdout' = Append(stdout, WarnHttpDuplicated)
                            /\ http_warned' = TRUE
                       ELSE UNCHANGED <<stdout, http_warned>>
                    /\ seenDefangedSchemes' = seenDefangedSchemes \cup {s.DefangedScheme}
                    /\ idx' = idx + 1
                    /\ UNCHANGED <<pc, exitCode>>
               ELSE FatalExit(ErrorDuplicated(s.DefangedScheme,
                        duplicateSchemes(permanentSchemes, s.DefangedScheme)))
          ELSE /\ seenDefangedSchemes' = seenDefangedSchemes \cup {s.DefangedScheme}
               /\ idx' = idx + 1
               /\ UNCHANGED <<pc, exitCode, stdout, http_warned>>
    /\ UNCHANGED <<table, SchemeMap, permanentSchemes>>
    /\ UNCHANGED <<defangVars, callVars, pyVars>>

\* defangedSchemesAreOneToOne: the loop is over, the function and main return.
OneToOneReturn ==
    /\ pc = "onetoone_loop"
    /\ idx > Len(permanentSchemes)
    /\ pc' = "returned"
    /\ UNCHANGED <<exitCode, stdout>>
    /\ UNCHANGED checkVars
    /\ UNCHANGED <<defangVars, callVars, pyVars>>

\* Whether defangedSchemesAreNotValid returns on schemes: it exits at the
\* first record outside the edge case whose defanged form is known.
NotValidPasses(schemes) ==
    \A k \in 1..Len(schemes) :
        defangedSchemeIsKnown(schemes[k], schemes) => IsHttpEdgeCase(schemes[k])

\* Whether defangedSchemesAreOneToOne returns on schemes: it exits at the
\* first record outside the edge case whose defanged form an earlier record
\* has put in seenDefangedSchemes.
OneToOnePasses(schemes) ==
    \A k \in 1..Len(schemes) :
        (\E j \in 1..(k - 1) : schemes[j].DefangedScheme = schemes[k].DefangedScheme)
            => IsHttpEdgeCase(schemes[k])

\* Whether main returns when it hands schemes to the two checks.
MainPasses(schemes) == NotValidPasses(schemes) /\ OneToOnePasses(schemes)

CheckInit ==
    /\ table \in Tables
    /\ pc = "writeconsts"
    /\ SchemeMap = <<>>
    /\ permanentSchemes = <<>>
    /\ idx = 0
    /\ http_warned = FALSE
    /\ seenDefangedSchemes = {}
    /\ exitCode = 0
    /\ stdout = <<>>
    /\ scheme = <<>>
    /\ result = <<>>
    /\ retCase = "none"
    /\ CallIdle
    /\ PyIdle

CheckNext ==
    \/ WriteConstsMain
    \/ DefangCheckMain
    \/ NotValidBegin
    \/ NotValidIter
    \/ NotValidReturn
    \/ OneToOneBegin
    \/ OneToOneIter
    \/ OneToOneReturn

CheckSpec == CheckInit /\ [][CheckNext]_vars

\* ---------------------------------------------------------------------
\* Vocabulary of the tool chain's properties

\* The names of the documented exception.
Quadruple == {http, https, hxxp, hxxps}

\* The records the checks run over, by position.
Records == 1..Len(permanentSchemes)

NameOf(k) == permanentSchemes[k].Scheme
DefangedOf(k) == permanentSchemes[k].DefangedScheme

\* The positions of the records whose defanged form is the name of a record.
StillValid == {k \in Records : \E j \in Records : DefangedOf(k) = NameOf(j)}

\* Those among them that the exception does not cover.
FatalStillValid == {k \in StillValid : NameOf(k) \notin Quadruple}

Min(S) == CHOOSE k \in S : \A j \in S : k <= j

\* The first check has returned.
PastNotValid == pc \in {"onetoone_begin", "onetoone_loop", "returned"}

\* defangcheck has ended, by return or by exit.
CheckEnded == pc \in {"returned", "exited"}

LastLine == stdout[Len(stdout)]

\* The lines of the given level and message printed so far.
Printed(level, msg) ==
    SelectSeq(stdout, LAMBDA l : l.level = level /\ l.msg = msg)

\* ---------------------------------------------------------------------
\* Properties of the tool chain

\* C11: the non-validity check fails, with an error naming the offending
\* defanged string, exactly when some record outside the exception has a
\* defanged form equal to the name of a record (its own included); when no
\* defanged form is a record name it returns without error or warning.
C11_NonValidity ==
    /\ PastNotValid =>
          /\ FatalStillValid = {}
          /\ exitCode = 0
          /\ Len(Printed("ERROR", "still a valid scheme")) = 0
          /\ StillValid = {} => Len(Printed("WARN", WarnHttpValid.msg)) = 0
    /\ pc = "exited" =>
          /\ exitCode = 1
          /\ IF FatalStillValid # {}
             THEN LastLine = ErrorStillValid(DefangedOf(Min(FatalStillValid)))
             ELSE LastLine.msg = "duplicated"

C11_Witness ==
    /\ pc = "exited"
    /\ Len(permanentSchemes) = 2
    /\ NameOf(1) = <<"t", "x">>
    /\ LastLine = ErrorStillValid(<<"t", "x">>)

\* The names of the records whose defanged form is d, in list order.
OffendersOf(d) ==
    LET sel == SelectSeq(permanentSchemes, LAMBDA r : r.DefangedScheme = d)
    IN [i \in 1..Len(sel) |-> sel[i].Scheme]

\* C12: a reported ambiguity on a defanged string lists the name of every
\* record with that defanged form, in list order, so at least two names.
C12_AllOffendersListed ==
    (pc = "exited" /\ LastLine.msg = "duplicated") =>
        /\ LastLine.defanged = DefangedOf(idx)
        /\ LastLine.offenders = OffendersOf(LastLine.defanged)
        /\ Len(LastLine.offenders) >= 2
        /\ \A k \in Records :
              DefangedOf(k) = LastLine.defanged =>
                  \E i \in 1..Len(LastLine.offenders) : LastLine.offenders[i] = NameOf(k)

C12_Witness ==
    /\ pc = "exited"
    /\ idx = 2
    /\ LastLine.msg = "duplicated"
    /\ LastLine.offenders = <<<<"t", "p">>, <<"t", "s">>, <<"t", "t">>>>

\* C13: when verification returns without a fatal error, every pair of
\* records of which one's defanged form is the other's name, and every pair
\* of distinct records with the same defanged form, lies in the quadruple.
C13_OnlyQuadrupleExcused ==
    pc = "returned" =>
        \A k, j \in Records :
            /\ DefangedOf(k) = NameOf(j) => {NameOf(k), NameOf(j)} \subseteq Quadruple
            /\ (k # j /\ DefangedOf(k) = DefangedOf(j)) =>
                  {NameOf(k), NameOf(j)} \subseteq Quadruple

\* The verdict the run reaches is the one MainPasses computes for its list.
PassesAgreesWithRun ==
    CheckEnded => (MainPasses(permanentSchemes) = (pc = "returned"))

\* C14: the verdict of a run is the verdict of every ordering of the same
\* records.
C14_VerdictOrderIndependent ==
    CheckEnded =>
        \A o \in Orderings(Records) :
            MainPasses([i \in Records |-> permanentSchemes[o[i]]]) = (pc = "returned")

\* The exception warnings the two checks have printed.
ExceptionWarnings ==
    Len(Printed("WARN", WarnHttpValid.msg)) + Len(Printed("WARN", WarnHttpDuplicated.msg))

\* The checked records are exactly http, https, hxxp and hxxps.
OnlyQuadruple ==
    /\ Len(permanentSchemes) = 4
    /\ {NameOf(k) : k \in Records} = Quadruple

\* C15 as stated: over exactly http, https, hxxp, hxxps verification ends
\* without fatal error and with exactly one warning in total.
C15_OneWarningInTotal ==
    (CheckEnded /\ OnlyQuadruple) =>
        /\ pc = "returned"
        /\ ExceptionWarnings = 1

\* C15 amended: over exactly http, https, hxxp, hxxps, in any order,
\* verification ends without fatal error and with exactly two exception
\* warnings, one from each check.
C15_OneWarningPerCheck ==
    (CheckEnded /\ OnlyQuadruple) =>
        /\ pc = "returned" /\ exitCode = 0
        /\ Len(Printed("ERROR", "still a valid scheme")) = 0
        /\ Len(Printed("ERROR", "duplicated")) = 0
        /\ Len(Printed("WARN", WarnHttpValid.msg)) = 1
        /\ Len(Printed("WARN", WarnHttpDuplicated.msg)) = 1

C15_Witness ==
    /\ pc = "returned"
    /\ OnlyQuadruple
    /\ NameOf(1) = hxxps
    /\ ExceptionWarnings = 2

\* The loop of a check is at a record whose violation the exception excuses.
ExcusedInNotValid ==
    /\ pc = "notvalid_loop" /\ idx \in Records
    /\ idx \in StillValid /\ NameOf(idx) \in Quadruple

ExcusedInOneToOne ==
    /\ pc = "onetoone_loop" /\ idx \in Records
    /\ \E j \in 1..(idx - 1) : DefangedOf(j) = DefangedOf(idx)
    /\ NameOf(idx) \in Quadruple

\* C16: in each check the first excused violation prints that check's
\* warning and every later one prints nothing, so a check never prints its
\* warning twice.
C16_WarnedOnce ==
    /\ [](pc \notin {"writeconsts", "generator_exited"} =>
            /\ Len(Printed("WARN", WarnHttpValid.msg)) <= 1
            /\ Len(Printed("WARN", WarnHttpDuplicated.msg)) <= 1)
    /\ [][/\ ExcusedInNotValid =>
                IF Len(Printed("WARN", WarnHttpValid.msg)) = 0
                THEN stdout' = Append(stdout, WarnHttpValid)
                ELSE stdout' = stdout
          /\ ExcusedInOneToOne =>
                IF Len(Printed("WARN", WarnHttpDuplicated.msg)) = 0
                THEN stdout' = Append(stdout, WarnHttpDuplicated)
                ELSE stdout' = stdout]_vars

C16_Witness ==
    /\ pc = "notvalid_loop"
    /\ OnlyQuadruple
    /\ idx = 5
    /\ Len(Printed("WARN", WarnHttpValid.msg)) = 1

\* The positions of the records outside the exception whose defanged form
\* another record has too.
FatalDuplicates ==
    {k \in Records : /\ NameOf(k) \notin Quadruple
                     /\ \E j \in Records : j # k /\ DefangedOf(j) = DefangedOf(k)}

\* The positions at which the one-to-one scan meets a non-excused collision.
FatalWhenScanned ==
    {k \in Records : /\ NameOf(k) \notin Quadruple
                     /\ \E j \in 1..(k - 1) : DefangedOf(j) = DefangedOf(k)}

ErrorsPrinted == SelectSeq(stdout, LAMBDA l : l.level = "ERROR")

\* C17 as stated: the report of an ended verification holds every
\* non-exempt violation of the input, collisions and ambiguities alike.
C17_AllViolationsReported ==
    CheckEnded =>
        /\ \A k \in FatalStillValid :
              \E i \in 1..Len(stdout) : stdout[i] = ErrorStillValid(DefangedOf(k))
        /\ \A k \in FatalDuplicates :
              \E i \in 1..Len(stdout) :
                  stdout[i].msg = "duplicated" /\ stdout[i].defanged = DefangedOf(k)

\* C17 amended: verification stops at the first non-exempt violation in
\* scan order (first check, then second): it prints that one error and
\* exits with status 1, so at most one error is ever printed and a later
\* independent violation is not reported.
C17_StopsAtFirstViolation ==
    pc \notin {"writeconsts", "generator_exited"} =>
        /\ Len(ErrorsPrinted) <= 1
        /\ (Len(ErrorsPrinted) = 1) = (pc = "exited")
        /\ pc = "returned" => FatalStillValid = {} /\ FatalWhenScanned = {}
        /\ pc = "exited" =>
              /\ exitCode = 1
              /\ LastLine = ErrorsPrinted[1]
              /\ IF FatalStillValid # {}
                 THEN LastLine = ErrorStillValid(DefangedOf(Min(FatalStillValid)))
                 ELSE /\ FatalWhenScanned # {}
                      /\ LastLine.msg = "duplicated"
                      /\ LastLine.defanged = DefangedOf(Min(FatalWhenScanned))

C17_Witness ==
    /\ pc = "exited"
    /\ Cardinality({DefangedOf(k) : k \in FatalStillValid}) >= 2
    /\ Len(ErrorsPrinted) = 1

\* The checked records are two distinct schemes outside the quadruple with
\* the same defanged form.
TwoColliding ==
    /\ Len(permanentSchemes) = 2
    /\ NameOf(1) # NameOf(2)
    /\ NameOf(1) \notin Quadruple /\ NameOf(2) \notin Quadruple
    /\ DefangedOf(1) = DefangedOf(2)

\* C18 as stated: two distinct schemes outside the quadruple with the same
\* defanged form always end verification with the ambiguity error naming
\* both, also when one of them is the shared defanged string.
C18_AmbiguityNamesBoth ==
    (CheckEnded /\ TwoColliding) =>
        /\ pc = "exited"
        /\ LastLine.msg = "duplicated"
        /\ \A k \in Records :
              \E i \in 1..Len(LastLine.offenders) : LastLine.offenders[i] = NameOf(k)

\* C18 amended: two such schemes end verification with the ambiguity error
\* naming both, in either order, when neither is the shared defanged
\* string; when one is, verification ends in the first check with the
\* still-valid error for that string.
C18_AmbiguityUnlessStillValid ==
    (CheckEnded /\ TwoColliding) =>
        /\ pc = "exited" /\ exitCode = 1
        /\ IF DefangedOf(1) \in {NameOf(1), NameOf(2)}
           THEN LastLine = ErrorStillValid(DefangedOf(1))
           ELSE LastLine = ErrorDuplicated(DefangedOf(1), <<NameOf(1), NameOf(2)>>)

C18_Witness ==
    /\ pc = "exited"
    /\ TwoColliding
    /\ NameOf(1) = <<"t", "s">> /\ NameOf(2) = <<"t", "p">>
    /\ LastLine = ErrorDuplicated(<<"t", "x">>, <<<<"t", "s">>, <<"t", "p">>>>)

Chars(s) == {s[i] : i \in 1..Len(s)}

\* C19: the defanged form of a record whose name takes the bracket rule
\* holds "[" and "]", which are no scheme characters, so it is no valid
\* scheme token, it is the name of no record and the non-validity check
\* never reports it.
C19_BracketedNeverValid ==
    pc \notin {"writeconsts", "generator_exited"} =>
        \A k \in Records :
            (HasReserved(NameOf(k)) /\ NameOf(k) \notin {http, https}) =>
                /\ {"[", "]"} \subseteq Chars(DefangedOf(k))
                /\ ~(Chars(DefangedOf(k)) \subseteq Alphabet)
                /\ DefangedOf(k) \notin SchemeNames
                /\ k \notin StillValid
                /\ \A i \in 1..Len(stdout) : stdout[i] # ErrorStillValid(DefangedOf(k))

C19_Witness ==
    /\ pc = "returned"
    /\ Len(permanentSchemes) = 3
    /\ NameOf(2) = <<"t", ".", "p">>
    /\ DefangedOf(2) = <<"t", "[", ".", "]", "p">>

\* C20: every entry of the generated map is stored under its Scheme field
\* and has DefangedScheme equal to what DefangScheme makes of that name, and
\* the records the checks compare and report are those entries, unaltered.
C20_FieldIsDefangOfName ==
    /\ [](pc = "checkmain" =>
            /\ DOMAIN SchemeMap = DOMAIN table
            /\ \A n \in DOMAIN SchemeMap :
                  /\ SchemeMap[n].Scheme = n
                  /\ SchemeMap[n].Status = table[n]
                  /\ FirstRule(n) > 1
                  /\ RuleOutcome(FirstRule(n), n, SchemeMap[n].DefangedScheme))
    /\ [](pc \notin {"writeconsts", "generator_exited", "checkmain"} =>
            /\ \A k \in Records :
                  /\ NameOf(k) \in DOMAIN SchemeMap
                  /\ permanentSchemes[k] = SchemeMap[NameOf(k)]
            /\ pc = "exited" => LastLine.defanged = DefangedOf(idx))
    /\ [][pc # "writeconsts" => SchemeMap' = SchemeMap]_vars
    /\ [][pc \notin {"writeconsts", "checkmain"} =>
              permanentSchemes' = permanentSchemes]_vars

C20_Witness ==
    /\ pc = "onetoone_loop"
    /\ idx = 2
    /\ NameOf(1) = https
    /\ DefangedOf(1) = hxxps
    /\ SchemeMap[https].DefangedScheme = hxxps

\* The names of the table's Permanent rows.
PermanentNames == {n \in DOMAIN table : table[n] = Permanent}

\* C21: the list main hands to the checks holds exactly the Permanent
\* records, each once, and neither check alters it; a run in which no listed
\* record's defanged form is the name of a listed record or the defanged
\* form of another listed record returns without exception warning and
\* without error, whatever the rows of other status are, so a failure
\* always has a cause among the Permanent records.
C21_PermanentOnly ==
    /\ [](pc \in {"notvalid_begin", "onetoone_begin", "returned", "exited"} =>
            /\ \A k \in Records : permanentSchemes[k].Status = Permanent
            /\ {NameOf(k) : k \in Records} = PermanentNames
            /\ Len(permanentSchemes) = Cardinality(PermanentNames)
            /\ (/\ CheckEnded
                /\ \A k \in Records : DefangedOf(k) \notin PermanentNames
                /\ \A k, j \in Records : k # j => DefangedOf(k) # DefangedOf(j))
               => /\ pc = "returned"
                  /\ ExceptionWarnings = 0
                  /\ ErrorsPrinted = <<>>)
    /\ [][(pc \in {"notvalid_begin", "notvalid_loop", "onetoone_begin",
                   "onetoone_loop"}) =>
              UNCHANGED <<permanentSchemes, table>>]_vars

\* http Permanent beside a Provisional hxxp: the run returns in silence.
C21_Witness ==
    /\ pc = "returned"
    /\ DOMAIN table = {http, hxxp}
    /\ table[http] = Permanent
    /\ table[hxxp] = Provisional
    /\ Len(permanentSchemes) = 1
    /\ NameOf(1) = http
    /\ DefangedOf(1) = hxxp
    /\ ExceptionWarnings = 0
    /\ ErrorsPrinted = <<>>

\* ---------------------------------------------------------------------
\* defangedSchemesAreOneToOne called on a list of the caller's choice

\* Longest list handed to the function.
MaxList == 3

\* The lists: at most MaxList records, a name may occur more than once;
\* every record is one the generator makes for its name.
SchemeLists ==
    UNION {[1..n -> {SchemeStruct(name, DefangScheme(name), Permanent) :
                        name \in {s \in SchemeNames : Len(s) # 1}}] :
           n \in 0..MaxList}

OneToOneInit ==
    /\ permanentSchemes \in SchemeLists
    /\ pc = "onetoone_begin"
    /\ table = <<>>
    /\ SchemeMap = <<>>
    /\ idx = 0
    /\ http_warned = FALSE
    /\ seenDefangedSchemes = {}
    /\ exitCode = 0
    /\ stdout = <<>>
    /\ scheme = <<>>
    /\ result = <<>>
    /\ retCase = "none"
    /\ CallIdle
    /\ PyIdle

OneToOneNext ==
    \/ OneToOneBegin
    \/ OneToOneIter
    \/ OneToOneReturn

OneToOneSpec == OneToOneInit /\ [][OneToOneNext]_vars

\* The positions whose record has the defanged form of an earlier record.
SeenBefore == {k \in Records : \E j \in 1..(k - 1) : DefangedOf(j) = DefangedOf(k)}

\* C22: the one-to-one check treats a record as colliding exactly when its
\* defanged form is that of an earlier record of the list, whatever that
\* record's name: the set it keeps is the defanged forms of the records
\* scanned so far, it exits at the first such record outside http, https,
\* hxxp and hxxps with the duplicated error listing every record of that
\* defanged form, and returns when there is none; so a list of one such
\* name given twice ends in the error that lists the name twice.
C22_CollisionByDefangedForm ==
    /\ pc = "onetoone_loop" =>
          seenDefangedSchemes = {DefangedOf(j) : j \in 1..(idx - 1)}
    /\ pc = "exited" =>
          /\ idx \in SeenBefore
          /\ NameOf(idx) \notin Quadruple
          /\ \A k \in 1..(idx - 1) : k \in SeenBefore => NameOf(k) \in Quadruple
          /\ LastLine = ErrorDuplicated(DefangedOf(idx), OffendersOf(DefangedOf(idx)))
    /\ pc = "returned" =>
          \A k \in SeenBefore : NameOf(k) \in Quadruple
    /\ (/\ CheckEnded
        /\ Len(permanentSchemes) = 2
        /\ NameOf(1) = NameOf(2)
        /\ NameOf(1) \notin Quadruple)
       => /\ pc = "exited"
          /\ LastLine.msg = "duplicated"
          /\ LastLine.offenders = <<NameOf(1), NameOf(1)>>

\* The list tp, tp ends in the error that names tp twice.
C22_Witness ==
    /\ pc = "exited"
    /\ Len(permanentSchemes) = 2
    /\ NameOf(1) = <<"t", "p">>
    /\ NameOf(2) = <<"t", "p">>
    /\ LastLine.msg = "duplicated"
    /\ LastLine.defanged = <<"t", "x">>
    /\ LastLine.offenders = <<<<"t", "p">>, <<"t", "p">>>>

\* ---------------------------------------------------------------------
\* constructPyList of the defangdump tool, one loop iteration per step

\* Longest list handed to constructPyList.
MaxItems == 3

maxLineLength == 79

indentNumber == 4

\* The lengths of the items the model draws: quoted and with the comma they
\* are 4, 37, 38, 74 and 80 characters long.
ItemLengths == {1, 34, 35, 71, 77}

\* An item of n characters.
Item(n) == [i \in 1..n |-> "a"]

StrLists == UNION {[1..n -> {Item(k) : k \in ItemLengths}] : n \in 0..MaxItems}

\* fmt.Sprintf("\"%s\",", str)
SprintfQuoted(str) == <<"\"">> \o str \o <<"\"", ",">>

\* strings.Repeat(" ", n)
Repeat(n) == [i \in 1..n |-> " "]

\* One iteration of the loop over strs.
PyIter ==
    /\ pc = "py_loop"
    /\ strsDone < Len(strs)
    /\ LET str == strs[strsDone + 1]
           strStr == SprintfQuoted(str)
           newLine == currentLineLength + Len(strStr) > maxLineLength
           lines1 == IF newLine THEN Append(lines, currentLine) ELSE lines
           line1 == IF newLine THEN <<>> ELSE currentLine
           length1 == IF newLine THEN 0 ELSE currentLineLength
           line2 == IF Len(line1) = 0 THEN line1 \o Repeat(indentNumber) ELSE line1
           length2 == IF Len(line1) = 0 THEN indentNumber ELSE length1
           line3 == IF Len(line2) > 0 THEN line2 \o <<" ">> ELSE line2
           length3 == IF Len(line2) > 0 THEN length2 + 1 ELSE length2
       IN /\ lines' = lines1
          /\ currentLine' = line3 \o strStr
          /\ currentLineLength' = length3 + Len(strStr)
    /\ strsDone' = strsDone + 1
    /\ UNCHANGED <<pc, strs, exitCode, stdout>>
    /\ UNCHANGED <<defangVars, checkVars, callVars>>

\* After the loop: the final line is added and the lines are returned,
\* joined between the opening and the closing line of the list.
PyReturn ==
    /\ pc = "py_loop"
    /\ strsDone = Len(strs)
    /\ lines' = IF Len(currentLine) > 0 THEN Append(lines, currentLine) ELSE lines
    /\ pc' = "py_done"
    /\ UNCHANGED <<strs, strsDone, currentLineLength, currentLine, exitCode, stdout>>
    /\ UNCHANGED <<defangVars, checkVars, callVars>>

PyInit ==
    /\ strs \in StrLists
    /\ pc = "py_loop"
    /\ strsDone = 0
    /\ currentLineLength = 0
    /\ currentLine = <<>>
    /\ lines = <<>>
    /\ exitCode = 0
    /\ stdout = <<>>
    /\ scheme = <<>>
    /\ result = <<>>
    /\ retCase = "none"
    /\ CheckIdle
    /\ CallIdle

PyNext ==
    \/ PyIter
    \/ PyReturn

PySpec == PyInit /\ [][PyNext]_vars

\* C23: when every item, quoted and with its comma, is at most 74
\* characters long, every line constructPyList returns is non-empty and at
\* most 79 characters long.
C23_LinesWithinPep8 ==
    (/\ pc = "py_done"
     /\ \A i \in 1..Len(strs) : Len(SprintfQuoted(strs[i])) <= 74)
    => \A k \in 1..Len(lines) :
          /\ Len(lines[k]) <= 79
          /\ Len(lines[k]) > 0

\* ---------------------------------------------------------------------
\* DefangScheme called again on what it returned

\* Most calls a caller makes in a row.
MaxCalls == 2

\* One call: the first on scheme, every later one on what the call before
\* returned.  A call on a string of length 1 ends the process.
CallDefangScheme ==
    /\ pc = "caller"
    /\ calls < MaxCalls
    /\ LET arg == IF calls = 0 THEN scheme ELSE result2
       IN IF Len(arg) = 1
          THEN /\ stdout' = Append(stdout, ErrorLine(arg))
               /\ exitCode' = 1
               /\ pc' = "exit"
               /\ UNCHANGED callVars
          ELSE /\ scheme2' = arg
               /\ result2' = DefangScheme(arg)
               /\ calls' = calls + 1
               /\ UNCHANGED <<pc, exitCode, stdout>>
    /\ UNCHANGED <<defangVars, checkVars, pyVars>>

AgainInit ==
    /\ scheme \in Inputs
    /\ pc = "caller"
    /\ result = <<>>
    /\ retCase = "none"
    /\ exitCode = 0
    /\ stdout = <<>>
    /\ CheckIdle
    /\ CallIdle
    /\ PyIdle

AgainNext == CallDefangScheme

AgainSpec == AgainInit /\ [][AgainNext]_vars

\* The positions of s at which a maximal run of additional characters
\* starts, and those at which one ends.
IsReservedAt(s, i) == i \in 1..Len(s) /\ s[i] \in ADDITIONAL_ALLOWED_SCHEME_CHARS

RunStarts(s) == {i \in 1..Len(s) : IsReservedAt(s, i) /\ ~IsReservedAt(s, i - 1)}

RunEnds(s) == {i \in 1..Len(s) : IsReservedAt(s, i) /\ ~IsReservedAt(s, i + 1)}

\* r is s with "[" put before every maximal run of additional characters
\* and "]" after it, whatever else s holds (brackets included): character i
\* of s is found shifted by the brackets opened up to i and closed before i.
IsRunWrapOf(r, s) ==
    LET starts == RunStarts(s)
        ends == RunEnds(s)
        at(i) == i + Cardinality({j \in starts : j <= i})
                   + Cardinality({j \in ends : j < i})
    IN /\ Len(r) = Len(s) + 2 * Cardinality(starts)
       /\ \A i \in 1..Len(s) :
             /\ r[at(i)] = s[i]
             /\ i \in starts => r[at(i) - 1] = "["
             /\ i \in ends => r[at(i) + 1] = "]"

\* The source positions the marker rules replace in a scheme without
\* additional character, as the rules are documented: 1 and 2 for http,
\* https and lengths above 4, 2 for length 4, 1 for lengths 2 and 3.
ReplacedIndexes(s) ==
    IF s = http \/ s = https \/ Len(s) > 4 THEN {1, 2}
    ELSE IF Len(s) = 4 THEN {2}
    ELSE IF Len(s) \in {2, 3} THEN {1}
    ELSE {}

\* C24: a scheme of length >= 2 without additional character is defanged
\* to a string that DefangScheme returns unchanged, on the second call and
\* on every later one; a scheme with an additional character gets every
\* maximal run wrapped once more by each call, brackets of earlier calls
\* left in place, so every call returns a string longer than its argument.
C24_IdempotentUnlessBracketed ==
    /\ calls = 1 => scheme2 = scheme
    /\ (calls >= 2 /\ Len(scheme) >= 2 /\ ~HasReserved(scheme)) =>
          /\ scheme2 = MarkedAt(scheme, ReplacedIndexes(scheme))
          /\ ~HasReserved(scheme2)
          /\ result2 = scheme2
    /\ (calls >= 1 /\ HasReserved(scheme)) =>
          /\ HasReserved(scheme2)
          /\ IsRunWrapOf(result2, scheme2)
          /\ Len(result2) > Len(scheme2)

\* http: the first call gives hxxp, which the second call, under the rule
\* for length 4, returns as it is.
C24_Witness ==
    /\ calls = 2
    /\ scheme = http
    /\ scheme2 = hxxp
    /\ result2 = hxxp

\* ---------------------------------------------------------------------
\* DefangScheme called on two schemes without additional character

\* Longest scheme of the pairs drawn in full.
MaxPairLen == 4

PairLetters == {"t", "p", "x"}

\* The schemes of the pairs: every string over PairLetters of length
\* 2 .. MaxPairLen, http and https, the strings that differ from them at
\* the replaced positions, and three strings of length 5.
PairInputs ==
    UNION {[1..n -> PairLetters] : n \in 2..MaxPairLen}
      \cup {http, https, hxxp, hxxps,
            <<"h", "x", "t", "p">>, <<"h", "t", "x", "p">>,
            <<"h", "x", "t", "p", "s">>,
            <<"t", "t", "t", "t", "t">>, <<"t", "p", "x", "t", "t">>,
            <<"t", "t", "t", "t", "p">>}

\* The call on the first scheme.
PairFirstCall ==
    /\ pc = "pair_first"
    /\ result' = DefangScheme(scheme)
    /\ pc' = "pair_second"
    /\ UNCHANGED <<scheme, retCase, exitCode, stdout>>
    /\ UNCHANGED <<checkVars, callVars, pyVars>>

\* The call on the second scheme.
PairSecondCall ==
    /\ pc = "pair_second"
    /\ result2' = DefangScheme(scheme2)
    /\ pc' = "pair_done"
    /\ UNCHANGED <<scheme2, calls, exitCode, stdout>>
    /\ UNCHANGED <<defangVars, checkVars, pyVars>>

PairInit ==
    /\ scheme \in PairInputs
    /\ scheme2 \in PairInputs
    /\ pc = "pair_first"
    /\ result = <<>>
    /\ result2 = <<>>
    /\ calls = 0
    /\ retCase = "none"
    /\ exitCode = 0
    /\ stdout = <<>>
    /\ CheckIdle
    /\ PyIdle

PairNext ==
    \/ PairFirstCall
    \/ PairSecondCall

PairSpec == PairInit /\ [][PairNext]_vars

\* s and u have the same length and the same character at every source
\* position outside P.
AgreeOutside(s, u, P) ==
    /\ Len(s) = Len(u)
    /\ \A i \in 1..Len(s) : (i - 1) \notin P => s[i] = u[i]

\* C25 as stated: two schemes without additional character defang to the
\* same string exactly when they have the same length, the same replaced
\* index set, and the same character at every index outside that set.
C25_CollideExactlyUnderSameRule ==
    pc = "pair_done" =>
        (result = result2 <=>
            /\ ReplacedIndexes(scheme) = ReplacedIndexes(scheme2)
            /\ AgreeOutside(scheme, scheme2, ReplacedIndexes(scheme)))

\* u is a 4-character scheme other than http that has h, x and p at the
\* source positions 0, 1 and 3.
CollidesWithHttp(u) ==
    /\ Len(u) = 4
    /\ u # http
    /\ u[1] = "h" /\ u[2] = "x" /\ u[4] = "p"

\* C25: two schemes without additional character defang to the same string
\* exactly when they have the same replaced index set, the same length and
\* the same character at every index outside that set, or one is http and
\* the other a 4-character scheme with h, x, p at the indices 0, 1, 3; two
\* different 4-character schemes that differ only at index 2 collide.
C25_CollideUnderSameRuleOrWithHttp ==
    pc = "pair_done" =>
        /\ result = result2 <=>
              \/ /\ ReplacedIndexes(scheme) = ReplacedIndexes(scheme2)
                 /\ AgreeOutside(scheme, scheme2, ReplacedIndexes(scheme))
              \/ scheme = http /\ CollidesWithHttp(scheme2)
              \/ scheme2 = http /\ CollidesWithHttp(scheme)
        /\ (/\ Len(scheme) = 4 /\ Len(scheme2) = 4
            /\ http \notin {scheme, scheme2}
            /\ AgreeOutside(scheme, scheme2, {2}))
           => result = result2

\* http and hxtp: index sets {1, 2} and {2}, both defanged to hxxp.
C25_Witness ==
    /\ pc = "pair_done"
    /\ scheme = http
    /\ scheme2 = <<"h", "x", "t", "p">>
    /\ ReplacedIndexes(scheme) # ReplacedIndexes(scheme2)
    /\ result = hxxp
    /\ result2 = hxxp

\* ---------------------------------------------------------------------
\* The length of what DefangScheme returns

\* C26: for a scheme of length >= 2 the returned string is longer than the
\* scheme by two characters for every maximal run of additional characters
\* in the scheme: of the same length when there is none, and of another
\* length only when the bracket rule returned it.
C26_TwoLongerPerRun ==
    (pc = "done" /\ Len(scheme) >= 2) =>
        /\ Len(result) = Len(scheme) + 2 * Cardinality(RunStarts(scheme))
        /\ ~HasReserved(scheme) => Len(result) = Len(scheme)
        /\ Len(result) # Len(scheme) => retCase = "case2"

\* -t.+p has the two runs - and .+ and is returned four characters longer.
C26_Witness ==
    /\ pc = "done"
    /\ scheme = <<"-", "t", ".", "+", "p">>
    /\ Cardinality(RunStarts(scheme)) = 2
    /\ result = <<"[", "-", "]", "t", "[", ".", "+", "]", "p">>
    /\ Len(result) = Len(scheme) + 4

====
